---- MODULE Spec2Model ----
(***************************************************************************)
(* Model of teams_exporter.py: the credential prompt, the participant     *)
(* resolver, the paginated collector with its custody ledger, the JSON     *)
(* export, the content sanitizer and the renderer.                         *)
(*                                                                         *)
(* Text is a sequence of tokens.  A token is one character where the code  *)
(* looks at characters (markup, entities, white space, date fields) and a  *)
(* run of plain letters elsewhere.  A JSON field is a kind ("absent",      *)
(* "null", "obj", "str", "list") and, beside it, the value it carries.     *)
(* An HTTP status of 0 stands for requests.get raising.                    *)
(***************************************************************************)
EXTENDS Integers, Sequences, FiniteSets, TLC

\* ---------------------------------------------------------------- bounds
MaxPages == 2
MaxMessages == 1
MaxScanMsgs == 2
MaxMembers == 1
MaxTypedParts == 4
MaxHtmlParts == 3

\* ------------------------------------------------------- Python helpers
None == <<>>
Some(x) == <<x>>

WhiteSpace == {" ", "\t", "\n"}

RECURSIVE LStrip(_)
LStrip(s) ==
    IF s # <<>> /\ Head(s) \in WhiteSpace THEN LStrip(Tail(s)) ELSE s

RECURSIVE RStrip(_)
RStrip(s) ==
    IF s # <<>> /\ s[Len(s)] \in WhiteSpace
    THEN RStrip(SubSeq(s, 1, Len(s) - 1)) ELSE s

Strip(s) == RStrip(LStrip(s))

\* `x and x.strip()` on a str
NonBlank(s) == s # <<>> /\ Strip(s) # <<>>

SeqsUpTo(S, n) == UNION {[1..k -> S] : k \in 0..n}

\* the lists a Python set can be iterated into
Orderings(S) ==
    {f \in [1..Cardinality(S) -> S] : \A i, j \in 1..Cardinality(S) : f[i] = f[j] => i = j}

\* ------------------------------------------------------------- samples
Alice == <<"Alice">>
Bob == <<"Bob">>
Blank == <<" ", " ">>
AliceMail == <<"alice@contoso.com">>
FromMessages == <<"From", " ", "messages">>
UnknownParticipants == <<"Unknown", " ", "Participants">>

HtmlHello == <<"<", "p", ">", "Hello", "&", "n", "b", "s", "p", ";", "World", "<", "/", "p", ">">>
PlainHi == <<"Hi">>
DateZ == <<"2", "0", "2", "4", "-", "0", "1", "-", "1", "5", "T", "1", "0", ":", "3", "0", ":", "0", "0", "Z">>
NotADate == <<"not-a-date">>

Msg(f, u, d, n, b, c, h, k, t) ==
    [from |-> f, user |-> u, displayName |-> d, name |-> n,
     body |-> b, content |-> c, html |-> h, created |-> k, date |-> t]

MsgAlice == Msg("obj", "obj", "str", Alice, "obj", "str", HtmlHello, "str", DateZ)
MsgBob == Msg("obj", "obj", "str", Bob, "obj", "str", PlainHi, "str", DateZ)
MsgNoFields == Msg("absent", "absent", "absent", <<>>, "absent", "absent", <<>>, "absent", <<>>)
MsgNulls == Msg("null", "absent", "absent", <<>>, "null", "absent", <<>>, "null", <<>>)
MsgNoUser == Msg("obj", "absent", "absent", <<>>, "obj", "absent", <<>>, "str", NotADate)
MsgBot == Msg("obj", "null", "absent", <<>>, "obj", "null", <<>>, "str", DateZ)
MsgNoName == Msg("obj", "obj", "absent", <<>>, "obj", "str", <<>>, "str", <<>>)
MsgNullName == Msg("obj", "obj", "null", <<>>, "obj", "str", PlainHi, "str", DateZ)
MsgBlankName == Msg("obj", "obj", "str", Blank, "obj", "str", PlainHi, "str", DateZ)

\* messages of a collected page: one per shape the renderer tells apart
PageSamples ==
    {MsgAlice, MsgNoFields, MsgNulls, MsgNoUser, MsgBot, MsgNoName, MsgNullName}

\* messages of the scanned page: these and more senders
ScanSamples == PageSamples \cup {MsgBob, MsgBlankName}

Member(m, d, n, e, a) ==
    [member |-> m, displayName |-> d, name |-> n, email |-> e, address |-> a]

MemberSamples ==
    {Member("obj", "str", Alice, "str", AliceMail),
     Member("obj", "str", Blank, "absent", <<>>),
     Member("obj", "absent", <<>>, "str", AliceMail),
     Member("null", "absent", <<>>, "absent", <<>>)}

\* ---------------------------------------------------------------- URLs
MembersUrl == "/chats/{chat_id}/members"
ExpandUrl == "/chats/{chat_id}?$expand=members"
MessagesUrl == "/chats/{chat_id}/messages?$top=50"
approaches == <<MembersUrl, ExpandUrl>>

Link1 == "/chats/{chat_id}/messages?$skiptoken=1"
Link2 == "/chats/{chat_id}/messages?$skiptoken=2"
EmptyLink == ""
NoLink == "None"
Links == {NoLink, EmptyLink, Link1, Link2}

Statuses == {0, 200, 401, 403, 500}

\* ------------------------------------------------- responses of the API
\* body of a membership response: json is "invalid" when response.json()
\* raises; key is the top-level key that holds the member list
MemberBody(j, k, l) == [json |-> j, key |-> k, list |-> l]

NoMembers == MemberBody("invalid", "none", <<>>)

MemberBodies ==
    {NoMembers, MemberBody("ok", "none", <<>>)}
    \cup {MemberBody("ok", k, l) :
              k \in {"value", "members"}, l \in SeqsUpTo(MemberSamples, MaxMembers)}

\* body of a message-page response
PageBody(j, v, l, n) == [json |-> j, value |-> v, msgs |-> l, link |-> n]

\* what stands for the body of a response that has none to read
NoBody == PageBody("invalid", "absent", <<>>, NoLink)

PageBodies(samples, maxMsgs) ==
    {NoBody, PageBody("ok", "null", <<>>, NoLink)}
    \cup {PageBody("ok", "absent", <<>>, n) : n \in Links}
    \cup {PageBody("ok", "list", l, n) : l \in SeqsUpTo(samples, maxMsgs), n \in Links}

\* ---------------------------------------------------------------- state
VARIABLES
    pc,                 \* where main() is: "token", "rejected", "participants",
                        \* "scan", "resolved", "collect", "returned", "done",
                        \* "crashed"; "sanitize" and "sanitized" around a call
                        \* of clean_html_content on its own
    typed,              \* get_token_from_browser: what input() reads
    token,              \* main: the credential, None before and if there is none
    html_in,            \* clean_html_content on its own: its argument
    cleaned,            \* clean_html_content on its own: None, then Some(result)
    approach,           \* get_chat_participants: index of its loop
    resolver_trace,     \* get_chat_participants: its requests so far, each with
                        \* the status of the response and what was made of it
    participants,       \* export_messages: what get_chat_participants returned
    participant_names,  \* export_messages: names for the report
    all_messages,       \* export_messages: flattened message list
    page_hashes,        \* export_messages: Page Hash Records
    page,               \* export_messages: page counter
    next_link,          \* export_messages: continuation link, NoLink for None
    page_log,           \* page requests of the collector with their responses
    chain_of_custody,   \* export_messages: the ledger, None until it is built
    json_file,          \* content of the exported JSON file, None if not written
    ret,                \* what export_messages returned to main, None before
    report,             \* what convert_json_to_pdf rendered, None if nothing
    console             \* error lines printed by export_messages and main

vars ==
    <<pc, typed, token, html_in, cleaned, approach, resolver_trace, participants,
      participant_names,
      all_messages, page_hashes, page, next_link, page_log, chain_of_custody,
      json_file, ret, report, console>>

collectorVars ==
    <<all_messages, page_hashes, page, next_link, page_log, chain_of_custody,
      json_file, ret, report, console>>

resolverVars ==
    <<approach, resolver_trace, participants, participant_names>>

mainVars == <<typed, token>>

sanitizerVars == <<html_in, cleaned>>

\* ------------------------------------------------------------ credential
BearerPrefix == <<"B", "e", "a", "r", "e", "r", " ">>

\* str.startswith(prefix)
StartsWith(s, prefix) ==
    Len(s) >= Len(prefix) /\ SubSeq(s, 1, Len(prefix)) = prefix

\* None, or Some(credential)
get_token_from_browser(input) ==
    LET stripped == Strip(input)
        bare == IF StartsWith(stripped, BearerPrefix)
                THEN SubSeq(stripped, 8, Len(stripped))
                ELSE stripped
    IN  IF bare = <<>> THEN None ELSE Some(BearerPrefix \o bare)

NoValidToken == <<"No", " ", "valid", " ", "token", " ", "provided">>

\* main up to its check of the credential
GetToken ==
    /\ pc = "token"
    /\ LET tok == get_token_from_browser(typed)
       IN  /\ token' = tok
           /\ IF tok = None \/ tok = Some(BearerPrefix)
              THEN /\ console' = Append(console, NoValidToken)
                   /\ pc' = "rejected"
              ELSE /\ console' = console
                   /\ pc' = "participants"
    /\ UNCHANGED <<typed, sanitizerVars, resolverVars>>
    /\ UNCHANGED <<all_messages, page_hashes, page, next_link, page_log,
                   chain_of_custody, json_file, ret, report>>

\* --------------------------------------------------- participant resolver
Raised == [raised |-> TRUE, participants |-> <<>>]
Returned(ps) == [raised |-> FALSE, participants |-> ps]

\* the loop body over the members of a membership response
RECURSIVE MembersToParticipants(_, _)
MembersToParticipants(list, acc) ==
    IF list = <<>> THEN Returned(acc)
    ELSE LET member == Head(list)
             display_name == IF member.displayName = "str" THEN member.name ELSE <<>>
             email == IF member.email = "str" THEN member.address ELSE <<>>
         IN  IF member.member = "null" THEN Raised
             ELSE IF member.displayName = "str" /\ NonBlank(display_name)
             THEN MembersToParticipants(Tail(list),
                      Append(acc, [displayName |-> display_name, email |-> email]))
             ELSE MembersToParticipants(Tail(list), acc)

\* the names the fallback collects from the senders of the scanned messages
RECURSIVE SenderNames(_, _)
SenderNames(msgs, acc) ==
    IF msgs = <<>> THEN [raised |-> FALSE, names |-> acc]
    ELSE LET message == Head(msgs)
         IN  IF message.from = "obj" /\ message.user = "null"
             THEN [raised |-> TRUE, names |-> {}]
             ELSE IF /\ message.from = "obj"
                     /\ message.user = "obj"
                     /\ message.displayName = "str"
                     /\ NonBlank(message.name)
             THEN SenderNames(Tail(msgs), acc \cup {message.name})
             ELSE SenderNames(Tail(msgs), acc)

\* the lists extract_participants_from_messages can return for a response
extract_participants_from_messages(status, body) ==
    IF status # 200 \/ body.json = "invalid" \/ body.value = "null" THEN {<<>>}
    ELSE LET found == IF body.value = "list" THEN SenderNames(body.msgs, {})
                      ELSE [raised |-> FALSE, names |-> {}]
         IN  IF found.raised THEN {<<>>}
             ELSE {[i \in 1..Len(order) |->
                       [displayName |-> order[i], email |-> FromMessages]] :
                   order \in Orderings(found.names)}

\* export_messages, right after get_chat_participants returned
ParticipantNames(ps) ==
    IF ps # <<>> THEN [i \in 1..Len(ps) |-> ps[i].displayName]
    ELSE <<UnknownParticipants>>

\* variant: a 200 response returns its list even when the list is empty
MembershipOutcomeReturnsEmpty(status, body) ==
    IF status = 200
    THEN IF body.json = "invalid" THEN [step |-> "continue", participants |-> <<>>]
         ELSE LET parsed == IF body.key = "none" THEN Returned(<<>>)
                            ELSE MembersToParticipants(body.list, <<>>)
              IN  IF ~parsed.raised
                  THEN [step |-> "return", participants |-> parsed.participants]
                  ELSE [step |-> "continue", participants |-> <<>>]
    ELSE IF status = 401 THEN [step |-> "break", participants |-> <<>>]
    ELSE [step |-> "continue", participants |-> <<>>]

\* what one membership response makes of the loop: "return", "break" or "continue"
MembershipOutcome(status, body) ==
    IF status = 200
    THEN IF body.json = "invalid" THEN [step |-> "continue", participants |-> <<>>]
         ELSE LET parsed == IF body.key = "none" THEN Returned(<<>>)
                            ELSE MembersToParticipants(body.list, <<>>)
              IN  IF ~parsed.raised /\ parsed.participants # <<>>
                  THEN [step |-> "return", participants |-> parsed.participants]
                  ELSE [step |-> "continue", participants |-> <<>>]
    ELSE IF status = 401 THEN [step |-> "break", participants |-> <<>>]
    ELSE [step |-> "continue", participants |-> <<>>]

\* the distinct non-empty display names of the senders in a scanned response
DistinctSenderNames(status, body) ==
    IF status # 200 \/ body.json = "invalid" \/ body.value # "list" THEN {}
    ELSE {body.msgs[i].name : i \in {k \in 1..Len(body.msgs) :
              /\ body.msgs[k].from = "obj"
              /\ body.msgs[k].user = "obj"
              /\ body.msgs[k].displayName = "str"
              /\ body.msgs[k].name # <<>>}}

Traced(url, status, found, senders) ==
    [url |-> url, status |-> status, found |-> found, senders |-> senders]

\* one pass of the loop of get_chat_participants: a request and its handling
RequestMembership ==
    /\ pc = "participants"
    /\ \E status \in Statuses, body \in MemberBodies :
        LET out == MembershipOutcome(status, body) IN
        /\ status # 200 => body = NoMembers
        /\ resolver_trace' = Append(resolver_trace,
               Traced(approaches[approach], status, out.participants, {}))
        /\ IF out.step = "return"
           THEN /\ participants' = out.participants
                /\ approach' = approach
                /\ pc' = "resolved"
           ELSE /\ participants' = participants
                /\ IF out.step = "continue" /\ approach < Len(approaches)
                   THEN approach' = approach + 1 /\ pc' = pc
                   ELSE approach' = approach /\ pc' = "scan"
    /\ UNCHANGED participant_names
    /\ UNCHANGED collectorVars
    /\ UNCHANGED <<mainVars, sanitizerVars>>

\* the fallback of get_chat_participants
ScanMessages ==
    /\ pc = "scan"
    /\ \E status \in Statuses, body \in PageBodies(ScanSamples, MaxScanMsgs) :
       /\ status # 200 => body = NoBody
       /\ \E ps \in extract_participants_from_messages(status, body) :
          /\ resolver_trace' = Append(resolver_trace,
                 Traced(MessagesUrl, status, ps, DistinctSenderNames(status, body)))
          /\ participants' = ps
          /\ pc' = "resolved"
    /\ UNCHANGED <<approach, participant_names>>
    /\ UNCHANGED collectorVars
    /\ UNCHANGED <<mainVars, sanitizerVars>>

\* export_messages takes the list get_chat_participants returned; the frame
\* of the call is gone
NameParticipants ==
    /\ pc = "resolved"
    /\ participant_names' = ParticipantNames(participants)
    /\ approach' = 1
    /\ resolver_trace' = <<>>
    /\ pc' = "collect"
    /\ UNCHANGED participants
    /\ UNCHANGED collectorVars
    /\ UNCHANGED <<mainVars, sanitizerVars>>

\* ------------------------------------------------------ custody ledger
\* hashlib.sha256(x).hexdigest(): one block of 64 hex digits; SHA-256 is
\* taken to be injective, so the block is labelled by what was hashed
Sha256Hex(bytes) == <<[sha256 |-> bytes]>>

\* "".join([ph["response_hash"] for ph in page_hashes])
RECURSIVE Join(_)
Join(hashes) ==
    IF hashes = <<>> THEN <<>> ELSE Head(hashes) \o Join(Tail(hashes))

\* variant: the digests joined newest first
all_hashes_combined_reversed(phs) ==
    Join([i \in 1..Len(phs) |-> phs[Len(phs) + 1 - i].response_hash])

all_hashes_combined(phs) == Join([i \in 1..Len(phs) |-> phs[i].response_hash])

master_hash(phs) == Sha256Hex(all_hashes_combined(phs))

session_metadata ==
    [chat_id |-> "{chat_id}", api_endpoint |-> "/chats/{chat_id}/messages",
     token_scope |-> "Chat.Read", export_method |-> "Microsoft Graph API v1.0"]

\* chain_of_custody["peritaje_info"]
Ledger(phs, msgs, pg) ==
    [page_hashes |-> phs,
     session_metadata |-> session_metadata,
     total_messages |-> Len(msgs),
     total_pages |-> pg,
     master_hash |-> master_hash(phs)]

\* ------------------------------------------------------ JSON export file
FinalFile == "exported_messages/complete_conversation_{timestamp}.json"

\* json.dump(all_messages, f): the array, element by element, as text
JsonDump(msgs) == [i \in 1..Len(msgs) |-> [text |-> msgs[i]]]

\* json.load(f)
JsonLoad(content) == [i \in 1..Len(content) |-> content[i].text]

\* --------------------------------------------------- paginated collector
\* variant: a page without 'value' counted as one message
messages_count_default_one(body) == IF body.value = "list" THEN Len(body.msgs) ELSE 1

\* len(response.json().get('value', []))
messages_count(body) == IF body.value = "list" THEN Len(body.msgs) ELSE 0

\* Python truth of next_link
Truthy(link) == link # NoLink /\ link # EmptyLink

\* variant: every request goes to the base URL
PageUrlAlwaysBase(link) == MessagesUrl

\* the URL of the next request
PageUrl(link) == IF Truthy(link) THEN link ELSE MessagesUrl

\* building the Page Hash Record raises when the body is not JSON or when
\* 'value' is null
PageRaises(body) == body.json = "invalid" \/ body.value = "null"

PageHashFirstPage(pg, url, status, body) ==
    [page |-> 1, url |-> url, status_code |-> status,
     response_hash |-> Sha256Hex(body), messages_count |-> messages_count(body)]

PageHash(pg, url, status, body) ==
    [page |-> pg, url |-> url, status_code |-> status,
     response_hash |-> Sha256Hex(body), messages_count |-> messages_count(body)]

\* the loop goes on after this response
Continues(status, body) == status = 200 /\ ~PageRaises(body) /\ Truthy(body.link)

\* variant: no branch for 401, which then prints as any other HTTP error
LoopErrorWithout401(status, body) ==
    IF status = 200 THEN IF PageRaises(body) THEN <<"Request error">> ELSE <<>>
    ELSE IF status = 0 THEN <<"Request error">>
    ELSE <<"HTTP Error">>

\* the error line the loop prints for a response, <<>> if none
LoopError(status, body) ==
    IF status = 200 THEN IF PageRaises(body) THEN <<"Request error">> ELSE <<>>
    ELSE IF status = 401 THEN <<"Error: Token expired or invalid">>
    ELSE IF status = 0 THEN <<"Request error">>
    ELSE <<"HTTP Error">>

\* return None, None, None
NothingRetrieved ==
    [result_file |-> None, chain_of_custody |-> None, participant_names |-> None]

\* the tail of export_messages, from the ledger to the return, and main's
\* test of the result
Finish(msgs, phs, pg, error) ==
    /\ chain_of_custody' = Some(Ledger(phs, msgs, pg))
    /\ IF msgs # <<>>
       THEN /\ json_file' = Some(JsonDump(msgs))
            /\ ret' = Some([result_file |-> Some(FinalFile),
                            chain_of_custody |-> Some(Ledger(phs, msgs, pg)),
                            participant_names |-> Some(participant_names)])
            /\ console' = console \o error
            /\ pc' = "returned"
       ELSE /\ json_file' = json_file
            /\ ret' = Some(NothingRetrieved)
            /\ console' = console \o error
                              \o <<"No messages retrieved", "Message export failed">>
            /\ pc' = "done"

\* one pass of the while loop of export_messages; the last pass runs on to
\* the return
FetchPage ==
    /\ pc = "collect"
    /\ \E status \in Statuses, body \in PageBodies(PageSamples, MaxMessages) :
        LET url == PageUrl(next_link)
            ok == status = 200 /\ ~PageRaises(body)
            phs == IF ok THEN Append(page_hashes, PageHash(page, url, status, body))
                   ELSE page_hashes
            msgs == IF ok /\ body.value = "list" THEN all_messages \o body.msgs
                    ELSE all_messages
            pg == IF Continues(status, body) THEN page + 1 ELSE page
        IN
        /\ status # 200 => body = NoBody
        /\ Continues(status, body) => page < MaxPages
        /\ Len(msgs) <= MaxMessages
        /\ page_log' = Append(page_log, [url |-> url, status |-> status,
                                         body |-> IF status = 200 THEN Some(body) ELSE None])
        /\ page_hashes' = phs
        /\ all_messages' = msgs
        /\ page' = pg
        /\ next_link' = IF ok THEN body.link ELSE next_link
        /\ IF Continues(status, body)
           THEN /\ pc' = pc
                /\ UNCHANGED <<chain_of_custody, json_file, ret, console>>
           ELSE Finish(msgs, phs, pg, LoopError(status, body))
    /\ UNCHANGED report
    /\ UNCHANGED resolverVars
    /\ UNCHANGED <<mainVars, sanitizerVars>>

\* ------------------------------------------------------ content sanitizer
Min(S) == CHOOSE x \in S : \A y \in S : x <= y
Max(S) == CHOOSE x \in S : \A y \in S : x >= y

\* first position >= from where s holds ch, 0 if none
FirstIndex(s, ch, from) ==
    LET K == {k \in from..Len(s) : s[k] = ch}
    IN  IF K = {} THEN 0 ELSE Min(K)

\* str.replace(pat, rep)
RECURSIVE Replace(_, _, _)
Replace(s, pat, rep) ==
    IF Len(s) < Len(pat) THEN s
    ELSE IF SubSeq(s, 1, Len(pat)) = pat
    THEN rep \o Replace(SubSeq(s, Len(pat) + 1, Len(s)), pat, rep)
    ELSE <<Head(s)>> \o Replace(Tail(s), pat, rep)

StyleAttr == <<"s", "t", "y", "l", "e", "=", "\"">>

\* end of the match of <[^>]*style="[^"]*"[^>]*> that starts at i, 0 if none:
\* the greedy [^>]* gives way until style=" follows it and the rest matches
StyleTagEnd(s, i) ==
    IF s[i] # "<" THEN 0
    ELSE LET gt == FirstIndex(s, ">", i + 1)
             limit == IF gt = 0 THEN Len(s) ELSE gt - 1
             EndFor(p) == LET q == FirstIndex(s, "\"", p + 7)
                          IN  IF q = 0 THEN 0 ELSE FirstIndex(s, ">", q + 1)
             P == {p \in (i + 1)..(Len(s) - 6) :
                      /\ p - 1 <= limit
                      /\ SubSeq(s, p, p + 6) = StyleAttr
                      /\ EndFor(p) # 0}
         IN  IF P = {} THEN 0 ELSE EndFor(Max(P))

\* end of the match of <[^>]+> that starts at i, 0 if none
TagEnd(s, i) ==
    IF s[i] # "<" THEN 0
    ELSE LET gt == FirstIndex(s, ">", i + 1)
         IN  IF gt >= i + 2 THEN gt ELSE 0

\* re.sub(r'<[^>]*style="[^"]*"[^>]*>', '', s), scanning from i
RECURSIVE RemoveStyleTags(_, _)
RemoveStyleTags(s, i) ==
    IF i > Len(s) THEN <<>>
    ELSE IF StyleTagEnd(s, i) # 0 THEN RemoveStyleTags(s, StyleTagEnd(s, i) + 1)
    ELSE <<s[i]>> \o RemoveStyleTags(s, i + 1)

\* re.sub(r'<[^>]+>', '', s), scanning from i
RECURSIVE RemoveTags(_, _)
RemoveTags(s, i) ==
    IF i > Len(s) THEN <<>>
    ELSE IF TagEnd(s, i) # 0 THEN RemoveTags(s, TagEnd(s, i) + 1)
    ELSE <<s[i]>> \o RemoveTags(s, i + 1)

DecodeEntities(s) ==
    LET a == Replace(s, <<"&", "n", "b", "s", "p", ";">>, <<" ">>)
        b == Replace(a, <<"&", "a", "m", "p", ";">>, <<"&">>)
        c == Replace(b, <<"&", "l", "t", ";">>, <<"<">>)
        d == Replace(c, <<"&", "g", "t", ";">>, <<">">>)
    IN  Replace(d, <<"&", "q", "u", "o", "t", ";">>, <<"\"">>)

\* re.sub(r'\s+', ' ', s)
RECURSIVE CollapseSpaces(_)
CollapseSpaces(s) ==
    IF s = <<>> THEN <<>>
    ELSE IF Head(s) \in WhiteSpace THEN <<" ">> \o CollapseSpaces(LStrip(s))
    ELSE <<Head(s)>> \o CollapseSpaces(Tail(s))

\* html_content is None or Some(text)
clean_html_content(html_content) ==
    IF html_content = None \/ html_content = Some(<<>>) THEN <<>>
    ELSE Strip(CollapseSpaces(DecodeEntities(
             RemoveTags(RemoveStyleTags(html_content[1], 1), 1))))

\* one call of clean_html_content
CleanHtmlContent ==
    /\ pc = "sanitize"
    /\ cleaned' = Some(clean_html_content(html_in))
    /\ pc' = "sanitized"
    /\ UNCHANGED <<html_in, mainVars, resolverVars, collectorVars>>

\* ---------------------------------------------------------- date display
Digits == <<"0", "1", "2", "3", "4", "5", "6", "7", "8", "9">>
IsDigit(ch) == \E k \in 1..10 : Digits[k] = ch
DigitVal(ch) == (CHOOSE k \in 1..10 : Digits[k] = ch) - 1
TwoDigits(s, i) == 10 * DigitVal(s[i]) + DigitVal(s[i + 1])

\* str(n) of a natural number
RECURSIVE DecStr(_)
DecStr(n) ==
    IF n < 10 THEN <<Digits[n + 1]>>
    ELSE DecStr(n \div 10) \o <<Digits[(n % 10) + 1]>>

DatePartOk(s) ==
    /\ \A i \in {1, 2, 3, 4, 6, 7, 9, 10} : IsDigit(s[i])
    /\ s[5] = "-" /\ s[8] = "-"
    /\ TwoDigits(s, 6) \in 1..12
    /\ TwoDigits(s, 9) \in 1..31

TimePartOk(s) ==
    /\ \A i \in {12, 13, 15, 16, 18, 19} : IsDigit(s[i])
    /\ s[14] = ":" /\ s[17] = ":"
    /\ TwoDigits(s, 12) <= 23
    /\ TwoDigits(s, 15) <= 59
    /\ TwoDigits(s, 18) <= 59

OffsetOk(s) ==
    /\ s[20] \in {"+", "-"}
    /\ \A i \in {21, 22, 24, 25} : IsDigit(s[i])
    /\ s[23] = ":"
    /\ TwoDigits(s, 21) <= 23
    /\ TwoDigits(s, 24) <= 59

\* datetime.fromisoformat accepts s; of its formats: the date alone, the
\* date and a time to the second, and these with a UTC offset
IsIsoFormat(s) ==
    \/ Len(s) = 10 /\ DatePartOk(s)
    \/ Len(s) = 19 /\ DatePartOk(s) /\ TimePartOk(s)
    \/ Len(s) = 25 /\ DatePartOk(s) /\ TimePartOk(s) /\ OffsetOk(s)

\* dt.strftime('%d/%m/%Y %H:%M:%S') of the parsed s
Strftime(s) ==
    SubSeq(s, 9, 10) \o <<"/">> \o SubSeq(s, 6, 7) \o <<"/">> \o SubSeq(s, 1, 4)
    \o <<" ">>
    \o (IF Len(s) = 10 THEN <<"0", "0", ":", "0", "0", ":", "0", "0">>
        ELSE SubSeq(s, 12, 19))

\* formatted_date of a message; created_date is None or Some(text)
formatted_date(created_date) ==
    IF created_date = None THEN None
    ELSE LET iso == Replace(created_date[1], <<"Z">>, <<"+", "0", "0", ":", "0", "0">>)
         IN  IF IsIsoFormat(iso) THEN Some(Strftime(iso)) ELSE created_date

\* ------------------------------------------------------ document renderer
\* the built-in English bundle of load_language_config
unidentified_user == <<"Unidentified", " ", "user">>
unknown_user == <<"Unknown", " ", "user">>

\* what an f-string shows for a value that is None or Some(text)
Show(v) == IF v = None THEN <<"None">> ELSE v[1]

\* ', '.join(names)
RECURSIVE JoinNames(_)
JoinNames(names) ==
    IF names = <<>> THEN <<>>
    ELSE IF Len(names) = 1 THEN names[1]
    ELSE names[1] \o <<",", " ">> \o JoinNames(Tail(names))

\* from_info.get('user', {}) is None: the lookup of displayName raises
MessageRaises(message) == message.from = "obj" /\ message.user = "null"

\* from_user of a message, None or Some(text)
from_user(message) ==
    IF message.from # "obj" THEN Some(unidentified_user)
    ELSE IF message.user = "absent" THEN Some(unknown_user)
    ELSE IF message.displayName = "absent" THEN Some(unknown_user)
    ELSE IF message.displayName = "null" THEN None
    ELSE Some(message.name)

\* body_content of a message, None or Some(text)
body_content(message) ==
    IF message.body # "obj" THEN Some(<<>>)
    ELSE IF message.content = "absent" THEN Some(<<>>)
    ELSE IF message.content = "null" THEN None
    ELSE Some(message.html)

\* message.get('createdDateTime', ''), None or Some(text)
created_date(message) ==
    IF message.created = "absent" THEN Some(<<>>)
    ELSE IF message.created = "null" THEN None
    ELSE Some(message.date)

\* the paragraph of message i
MessageText(i, message) ==
    [kind |-> "message",
     ordinal |-> DecStr(i),
     date |-> Show(formatted_date(created_date(message))),
     from |-> Show(from_user(message)),
     content |-> clean_html_content(body_content(message))]

Separator == [kind |-> "separator", ordinal |-> <<>>, date |-> <<>>, from |-> <<>>,
              content |-> <<>>]

\* the paragraphs of data[i..], with the rule after every tenth message
RECURSIVE MessageStory(_, _)
MessageStory(data, i) ==
    IF i > Len(data) THEN <<>>
    ELSE <<MessageText(i, data[i])>>
         \o (IF i % 10 = 0 THEN <<Separator>> ELSE <<>>)
         \o MessageStory(data, i + 1)

\* variant: the count taken from the last index of a zero-based list
total_messages_cell_off_by_one(data) == DecStr(Len(data) - 1)

\* str(len(data)) in the metadata table
total_messages_cell(data) == DecStr(Len(data))

\* the story convert_json_to_pdf hands to doc.build
Story(json_name, data, custody, names) ==
    [original_file |-> json_name,
     total_messages |-> total_messages_cell(data),
     participants_text |-> IF names # None /\ names[1] # <<>> THEN JoinNames(names[1])
                           ELSE UnknownParticipants,
     custody |-> custody,
     messages |-> MessageStory(data, 1)]

\* select_language and convert_json_to_pdf, as main calls them
ConvertJsonToPdf ==
    /\ pc = "returned"
    /\ LET data == JsonLoad(json_file[1])
           result == ret[1]
       IN  IF \E i \in 1..Len(data) : MessageRaises(data[i])
           THEN /\ report' = report
                /\ pc' = "crashed"
           ELSE /\ report' = Some(Story(result.result_file[1], data,
                                        result.chain_of_custody,
                                        result.participant_names))
                /\ pc' = "done"
    /\ UNCHANGED <<all_messages, page_hashes, page, next_link, page_log,
                   chain_of_custody, json_file, ret, console>>
    /\ UNCHANGED resolverVars
    /\ UNCHANGED <<mainVars, sanitizerVars>>

\* ---------------------------------------------------------- specification
\* what the user may type at the prompt
BearerWord == <<"B", "e", "a", "r", "e", "r">>
TypedToken == <<"t">>
TypedPieces == {<<" ">>, BearerWord, TypedToken}

RECURSIVE Flatten(_)
Flatten(parts) ==
    IF parts = <<>> THEN <<>> ELSE Head(parts) \o Flatten(Tail(parts))

TypedInputs == {Flatten(parts) : parts \in SeqsUpTo(TypedPieces, MaxTypedParts)}
TypedSamples == {<<>>, BearerPrefix \o TypedToken}

\* everything but the prompt and the sanitizer's argument
Start ==
    /\ token = None
    /\ cleaned = None
    /\ approach = 1
    /\ resolver_trace = <<>>
    /\ participants = <<>>
    /\ participant_names = <<>>
    /\ all_messages = <<>>
    /\ page_hashes = <<>>
    /\ page = 1
    /\ next_link = NoLink
    /\ page_log = <<>>
    /\ chain_of_custody = None
    /\ json_file = None
    /\ ret = None
    /\ report = None
    /\ console = <<>>

Init ==
    /\ Start
    /\ pc = "token"
    /\ typed \in TypedSamples
    /\ html_in = None

Next ==
    \/ GetToken
    \/ RequestMembership
    \/ ScanMessages
    \/ NameParticipants
    \/ FetchPage
    \/ ConvertJsonToPdf

Spec == Init /\ [][Next]_vars

\* main up to its check of the credential, for every typed input
InitToken ==
    /\ Start
    /\ pc = "token"
    /\ typed \in TypedInputs
    /\ html_in = None

SpecToken == InitToken /\ [][GetToken]_vars

\* markup that body.content may hold
HtmlStyled ==
    <<"<", "p", " ", "s", "t", "y", "l", "e", "=", "'", "x", "'", ">",
      "Hello", "&", "n", "b", "s", "p", ";", "World", "<", "/", "p", ">">>
HtmlPieces ==
    {<<"<">>, <<">">>, <<"b">>, <<" ">>,
     <<"&", "a", "m", "p", ";">>, <<"l", "t", ";">>, <<"&", "n", "b", "s", "p", ";">>,
     <<"<", "b", " ">> \o StyleAttr \o <<"x", "\"", ">">>}
HtmlInputs ==
    {None, Some(HtmlStyled)}
    \cup {Some(Flatten(parts)) : parts \in SeqsUpTo(HtmlPieces, MaxHtmlParts)}

\* clean_html_content on its own, for every such markup
InitSanitizer ==
    /\ Start
    /\ pc = "sanitize"
    /\ typed = <<>>
    /\ html_in \in HtmlInputs

SpecSanitizer == InitSanitizer /\ [][CleanHtmlContent]_vars

\* ================================================================ claims
Last(q) == q[Len(q)]

Finished == ret # None

\* a logged page response that yields a Page Hash Record
Fetched(e) == e.status = 200 /\ ~PageRaises(e.body[1])

\* a logged page response after which the loop goes on
GoesOn(e) == Fetched(e) /\ Truthy(e.body[1].link)

LoopErrors == {"Error: Token expired or invalid", "HTTP Error", "Request error"}

Lines(q) == {q[i] : i \in 1..Len(q)}

\* ---------------------------------------------------------------------- C1
\* C1 (as claimed): when a page request after the first ends in a status
\* other than 200 and 401, or raises, nothing is exported: no JSON file is
\* written and export_messages returns no file, ledger or names.
C1_PartialResultsDiscarded ==
    (/\ Finished
     /\ Len(page_log) >= 2
     /\ Last(page_log).status \notin {200, 401})
    => (json_file = None /\ ret[1] = NothingRetrieved)

\* ---------------------------------------------------------------------- C2
FetchedDigests ==
    LET got == SelectSeq(page_log, Fetched)
    IN  [i \in 1..Len(got) |-> Sha256Hex(got[i].body[1])]

Swap(q, i, j) ==
    [k \in 1..Len(q) |-> IF k = i THEN q[j] ELSE IF k = j THEN q[i] ELSE q[k]]

\* C2: the master hash of the ledger is SHA-256 of the digests of the fetched
\* pages joined without delimiter in fetch order, and it differs from the
\* master hash of the same pages with two pages of different digests swapped.
C2_MasterHashInFetchOrder ==
    chain_of_custody # None =>
        /\ chain_of_custody[1].master_hash = Sha256Hex(Join(FetchedDigests))
        /\ \A i, j \in 1..Len(FetchedDigests) :
               FetchedDigests[i] # FetchedDigests[j] =>
                   Sha256Hex(Join(Swap(FetchedDigests, i, j)))
                       # chain_of_custody[1].master_hash

C2_Witness ==
    /\ chain_of_custody # None
    /\ Len(chain_of_custody[1].page_hashes) >= 2
    /\ chain_of_custody[1].page_hashes[1].response_hash
           # chain_of_custody[1].page_hashes[2].response_hash

\* ---------------------------------------------------------------------- C3
\* C3 (as claimed): once a membership endpoint has answered 401, the resolver
\* issues no further request: the request answered 401 is its last one.
C3_NoRequestAfter401 ==
    \A i \in 1..Len(resolver_trace) :
        resolver_trace[i].status = 401 => i = Len(resolver_trace)

\* ---------------------------------------------------------------------- C4
FirstPage401 ==
    Finished /\ Len(page_log) = 1 /\ page_log[1].status = 401

\* C4 (as claimed): after a 401 on the first page nothing is exported, main
\* does not crash, and what export_messages returns differs from what it
\* returns for the other failures.
C4_CallerDistinguishes401 ==
    FirstPage401 =>
        /\ all_messages = <<>> /\ json_file = None /\ pc # "crashed"
        /\ ret[1] # NothingRetrieved

\* C4 (amended): after a 401 on the first page nothing is exported, no file
\* and no report are written and main ends without crashing; export_messages
\* returns the same (None, None, None) as for the other failures, and the
\* outcome shows only on the console, where the token line is printed exactly
\* by the runs whose last response was 401.
C4_DistinctOnConsoleOnly ==
    /\ FirstPage401 =>
           /\ all_messages = <<>> /\ json_file = None /\ report = None
           /\ pc = "done"
           /\ ret[1] = NothingRetrieved
           /\ console = <<"Error: Token expired or invalid",
                          "No messages retrieved", "Message export failed">>
    /\ Finished =>
           ("Error: Token expired or invalid" \in Lines(console)
                <=> Last(page_log).status = 401)

C4_Witness == FirstPage401 /\ pc = "done"

\* ---------------------------------------------------------------------- C5
RECURSIVE SumCounts(_)
SumCounts(phs) ==
    IF phs = <<>> THEN 0 ELSE Head(phs).messages_count + SumCounts(Tail(phs))

\* a 200 response with no message in it and no continuation link
EmptyLastPage(e) ==
    Fetched(e) /\ ~Truthy(e.body[1].link)
    /\ (e.body[1].value = "absent" \/ e.body[1].msgs = <<>>)

\* C5: at the end of every run total_messages is the sum of messages_count
\* over the Page Hash Records, and a last page without messages ends the
\* pagination with no error line.
C5_TotalIsSumOfPageCounts ==
    /\ Finished =>
           /\ chain_of_custody # None
           /\ chain_of_custody[1].total_messages
                  = SumCounts(chain_of_custody[1].page_hashes)
           /\ chain_of_custody[1].total_messages = Len(all_messages)
    /\ (page_log # <<>> /\ EmptyLastPage(Last(page_log))) =>
           /\ Finished
           /\ Lines(console) \cap LoopErrors = {}

C5_Witness ==
    /\ Finished
    /\ Len(page_hashes) = 2
    /\ page_hashes[1].messages_count = 1
    /\ page_hashes[2].messages_count = 0
    /\ page_log[2].body[1].value = "absent"

\* ---------------------------------------------------------------------- C6
RECURSIVE DecValue(_)
DecValue(s) ==
    IF s = <<>> THEN 0
    ELSE 10 * DecValue(SubSeq(s, 1, Len(s) - 1)) + DigitVal(s[Len(s)])

\* C6 (as claimed): when main has ended, there is a report and its message
\* count is the length of the exported message array, for 0 messages too.
C6_ReportForEverySize ==
    pc = "done" =>
        /\ report # None
        /\ DecValue(report[1].total_messages) = Len(all_messages)

\* C6 (amended): every report the pipeline produces is of an export of at
\* least one message and shows as message count the length of the exported
\* message array; an export of 0 messages writes no file and gives no report.
C6_ReportCountIsExportLength ==
    /\ report # None =>
           /\ Len(all_messages) >= 1
           /\ json_file # None
           /\ Len(JsonLoad(json_file[1])) = Len(all_messages)
           /\ DecValue(report[1].total_messages) = Len(all_messages)
    /\ (Finished /\ all_messages = <<>>) =>
           /\ json_file = None /\ report = None /\ pc = "done"
           /\ ret[1] = NothingRetrieved

C6_Witness == report # None /\ Len(all_messages) = MaxMessages /\ Len(page_hashes) = 2

\* ---------------------------------------------------------------------- C7
\* C7 (as claimed): when both membership endpoints answered with a status
\* other than 200 and the only distinct non-empty display name among the
\* senders of the scanned messages is Alice, the resolver returns exactly
\* one participant, Alice, with the mark of the fallback as email.
C7_FallbackYieldsAlice ==
    (/\ pc = "resolved"
     /\ Len(resolver_trace) = 3
     /\ resolver_trace[1].status \in {401, 403, 500}
     /\ resolver_trace[2].status \in {401, 403, 500}
     /\ resolver_trace[3].status = 200
     /\ resolver_trace[3].senders = {Alice})
    => participants = <<[displayName |-> Alice, email |-> FromMessages]>>

\* ---------------------------------------------------------------------- C8
Urls(trace) == [i \in 1..Len(trace) |-> trace[i].url]

\* C8: the resolver asks the members endpoint, the expand endpoint and the
\* message scan in that order, each at most once, and returns what the first
\* of them with a non-empty list found, an empty list only after the scan;
\* export_messages then names the participants, with the placeholder for an
\* empty list, and goes on to collect pages.
C8_ResolverNeverFailsExport ==
    /\ Urls(resolver_trace) \in
           {<<>>, <<MembersUrl>>, <<MembersUrl, ExpandUrl>>,
            <<MembersUrl, MessagesUrl>>, <<MembersUrl, ExpandUrl, MessagesUrl>>}
    /\ pc \in {"participants", "scan"} =>
           \A i \in 1..Len(resolver_trace) : resolver_trace[i].found = <<>>
    /\ pc = "resolved" =>
           /\ resolver_trace # <<>>
           /\ participants = Last(resolver_trace).found
           /\ \A i \in 1..(Len(resolver_trace) - 1) : resolver_trace[i].found = <<>>
           /\ participants = <<>> => Last(resolver_trace).url = MessagesUrl
           /\ ENABLED NameParticipants
    /\ pc \in {"collect", "returned", "done", "crashed"} =>
           /\ participant_names # <<>>
           /\ participants = <<>> => participant_names = <<UnknownParticipants>>
           /\ participants # <<>> =>
                  participant_names
                      = [i \in 1..Len(participants) |-> participants[i].displayName]
    /\ pc = "collect" => ENABLED FetchPage
    /\ pc \in {"returned", "done", "crashed"} => page_log # <<>>

C8_Witness ==
    /\ report # None
    /\ participants = <<>>
    /\ ret[1].participant_names = Some(<<UnknownParticipants>>)

\* ---------------------------------------------------------------------- C9
\* C9 (as claimed): the render never aborts on a message, whatever fields of
\* it are absent or null, and shows the placeholder of the missing sender,
\* of the unnamed sender, or the raw timestamp.
C9_RenderNeverAborts ==
    /\ pc # "crashed"
    /\ report # None =>
           \A i \in 1..Len(all_messages) :
               LET m == all_messages[i]
                   shown == report[1].messages[i]
               IN  /\ m.from # "obj" => shown.from = unidentified_user
                   /\ (m.from = "obj"
                          /\ (m.user = "absent" \/ (m.user = "obj" /\ m.displayName = "absent")))
                          => shown.from = unknown_user
                   /\ (m.created = "str" /\ ~IsIsoFormat(
                           Replace(m.date, <<"Z">>, <<"+", "0", "0", ":", "0", "0">>)))
                          => shown.date = m.date

\* --------------------------------------------------------------------- C10
\* C10: the first page request goes to the base URL, every later one to the
\* continuation link of the 200 response just before it, and the response
\* that has no such link, is not 200, or raises, is the last: the collector
\* has then left its loop.
C10_SequentialNoRetry ==
    /\ page_log # <<>> => page_log[1].url = MessagesUrl
    /\ \A i \in 2..Len(page_log) :
           /\ GoesOn(page_log[i - 1])
           /\ page_log[i].url = page_log[i - 1].body[1].link
    /\ (page_log # <<>> /\ ~GoesOn(Last(page_log))) => (Finished /\ pc # "collect")
    /\ pc = "collect" => (page_log = <<>> \/ GoesOn(Last(page_log)))
    /\ Finished => ~ENABLED FetchPage

C10_Witness ==
    /\ Finished
    /\ Len(page_log) = 2
    /\ page_log[2].url = Link2
    /\ page_log[2].status = 500

\* --------------------------------------------------------------------- C11
\* what is left of an input once the white space around it and one leading
\* scheme word "Bearer" are taken off
Remaining(input) ==
    LET stripped == Strip(input)
    IN  IF /\ StartsWith(stripped, BearerWord)
           /\ (Len(stripped) = Len(BearerWord) \/ stripped[Len(BearerWord) + 1] \in WhiteSpace)
        THEN Strip(SubSeq(stripped, Len(BearerWord) + 1, Len(stripped)))
        ELSE stripped

\* C11: once main has checked the credential: an input of which nothing remains
\* when its surrounding white space and one leading "Bearer" are removed gives
\* no credential and no HTTP request; any other input gives "Bearer " followed
\* by what remains; and the input prefixed with "Bearer " gives the same
\* credential as the input itself.
C11_CredentialIsBearerPlusRemaining ==
    pc # "token" =>
        /\ IF Remaining(typed) = <<>>
           THEN token = None /\ pc = "rejected" /\ ~ENABLED RequestMembership
           ELSE token = Some(BearerPrefix \o Remaining(typed))
        /\ StartsWith(typed, BearerPrefix) =>
               token = get_token_from_browser(SubSeq(typed, Len(BearerPrefix) + 1, Len(typed)))

\* --------------------------------------------------------------------- C12
\* the five named entities and the characters they stand for
Entities ==
    {[name |-> <<"&", "n", "b", "s", "p", ";">>, char |-> " "],
     [name |-> <<"&", "a", "m", "p", ";">>, char |-> "&"],
     [name |-> <<"&", "l", "t", ";">>, char |-> "<"],
     [name |-> <<"&", "g", "t", ";">>, char |-> ">"],
     [name |-> <<"&", "q", "u", "o", "t", ";">>, char |-> "\""]}

\* every entity of s replaced by its character, nothing else touched
RECURSIVE Decoded(_)
Decoded(s) ==
    IF s = <<>> THEN <<>>
    ELSE IF \E e \in Entities : StartsWith(s, e.name)
    THEN LET e == CHOOSE e \in Entities : StartsWith(s, e.name)
         IN  <<e.char>> \o Decoded(SubSeq(s, Len(e.name) + 1, Len(s)))
    ELSE <<Head(s)>> \o Decoded(Tail(s))

\* tags removed, entities decoded, white space collapsed, ends trimmed
CleanText(text) ==
    Strip(CollapseSpaces(Decoded(RemoveTags(RemoveStyleTags(text, 1), 1))))

\* C12: clean_html_content returns, for null or empty input the empty string,
\* for any markup the text left when the tags are removed, the five named
\* entities are decoded, runs of white space are collapsed to one space and the
\* ends are trimmed; <p style='x'>Hello&nbsp;World</p> gives "Hello World".
C12_CleanIsDecodedText ==
    pc = "sanitized" =>
        /\ cleaned # None
        /\ html_in \in {None, Some(<<>>)} => cleaned = Some(<<>>)
        /\ html_in # None => cleaned = Some(CleanText(html_in[1]))
        /\ html_in = Some(HtmlStyled) => cleaned = Some(<<"Hello", " ", "World">>)

\* --------------------------------------------------------------------- C13
\* the logged page responses that answered 200
Answered200 == SelectSeq(page_log, LAMBDA e : e.status = 200)

\* the record that the i-th entry of a list of logged responses gives
RecordOf(got, i) == PageHash(i, got[i].url, 200, got[i].body[1])

\* a step leaves the records it finds as they are and adds at most one, and
\* only with a request that was answered
AppendOnly ==
    /\ Len(page_hashes') \in {Len(page_hashes), Len(page_hashes) + 1}
    /\ SubSeq(page_hashes', 1, Len(page_hashes)) = page_hashes
    /\ Len(page_hashes') > Len(page_hashes) =>
           /\ Len(page_log') = Len(page_log) + 1
           /\ Last(page_log').status = 200

\* C13 (as claimed): page_hashes holds exactly one record per 200 response
\* received so far, in fetch order, with the page numbers 1, 2, ..., n.
C13_OneRecordPer200Response ==
    /\ Len(page_hashes) = Len(Answered200)
    /\ \A i \in 1..Len(page_hashes) : page_hashes[i] = RecordOf(Answered200, i)

\* C13 (amended): page_hashes is append-only and holds exactly one record per
\* 200 response whose record could be built (its body is JSON and its "value"
\* is not null), in fetch order, with the page numbers 1, 2, ..., n; a 200
\* response that raises while its record is built, a non-200 response and a
\* request exception create no record; no record is ever changed.
C13_OneRecordPerFetchedPage ==
    /\ [](/\ Len(page_hashes) = Len(SelectSeq(page_log, Fetched))
          /\ \A i \in 1..Len(page_hashes) :
                 /\ page_hashes[i] = RecordOf(SelectSeq(page_log, Fetched), i)
                 /\ page_hashes[i].page = i)
    /\ [][AppendOnly]_vars

\* a first page with its record, then a 200 response with a body that is not
\* JSON
C13_Witness ==
    /\ Len(page_log) = 2
    /\ Fetched(page_log[1])
    /\ page_log[2].status = 200 /\ ~Fetched(page_log[2])
    /\ Len(page_hashes) = 1
    /\ Finished

\* --------------------------------------------------------------------- C14
\* C14: in every custody ledger, total_pages is the number of Page Hash
\* Records of its page_hashes, however the pagination ended.
C14_TotalPagesIsRecordCount ==
    chain_of_custody # None =>
        chain_of_custody[1].total_pages = Len(chain_of_custody[1].page_hashes)

====
